---- MODULE Spec2Model ----
(***************************************************************************)
(* The expireassist server: the items / meals / meal_items / inventory     *)
(* tables and the GET /api/meals handler (server/server.js), with the meal *)
(* matcher runMatchWithItemIds and attachItemsToMeals.                     *)
(*                                                                         *)
(* Strings that the code parses are sequences of one-character strings.    *)
(* The item_ids query parameter is kept as the list of its comma-separated *)
(* tokens (what String(p).split(',') returns): the empty string is the     *)
(* one-element list holding the empty token.                               *)
(* The pass-through column meals.description is not modelled.              *)
(***************************************************************************)
EXTENDS Integers, Sequences, FiniteSets, TLC

\* ---------------------------------------------------------------- bounds
MaxMeal == 2

MaxItem == 3

MaxTokens == 2

MaxInvRows == 2

MaxCatalog == 6

\* LIMIT 5 of the ranking query
Limit == 5

MealIds == 1..MaxMeal

ItemIds == 1..MaxItem

\* ------------------------------------------------------- generic helpers
Range(s) == {s[k] : k \in DOMAIN s}

Min(a, b) == IF a <= b THEN a ELSE b

SeqsUpTo(S, lo, hi) == UNION {[1..n -> S] : n \in lo..hi}

\* every order in which a set of rows can come back from the database
RECURSIVE Perms(_)
Perms(S) ==
    IF S = {} THEN {<<>>}
    ELSE UNION {{<<x>> \o t : t \in Perms(S \ {x})} : x \in S}

\* ------------------------------------------------------------- seed data
ItemNameSeed == <<"milk", "eggs", "flour", "sugar", "butter", "rice">>

MealNameSeed ==
    <<"Pancakes", "Omelette", "Cake", "Waffles", "Bread", "Salad", "Toast", "Soup", "Pie">>

\* the collation ORDER BY name uses, on the seeded meal names
Alphabetical ==
    <<"Bread", "Cake", "Omelette", "Pancakes", "Pie", "Salad", "Soup", "Toast", "Waffles">>

NameRank(n) == CHOOSE k \in DOMAIN Alphabetical : Alphabetical[k] = n

\* ------------------------------------------------------------ parseInt
DigitChars == <<"0", "1", "2", "3", "4", "5", "6", "7", "8", "9">>

IsDigit(c) == \E k \in DOMAIN DigitChars : DigitChars[k] = c

DigitVal(c) == (CHOOSE k \in DOMAIN DigitChars : DigitChars[k] = c) - 1

RECURSIVE SkipSpace(_)
SkipSpace(s) == IF s # <<>> /\ Head(s) = " " THEN SkipSpace(Tail(s)) ELSE s

\* the longest prefix of decimal digits
RECURSIVE DigitPrefix(_)
DigitPrefix(s) ==
    IF s # <<>> /\ IsDigit(Head(s)) THEN <<Head(s)>> \o DigitPrefix(Tail(s)) ELSE <<>>

RECURSIVE DigitsValue(_, _)
DigitsValue(s, acc) ==
    IF s = <<>> THEN acc ELSE DigitsValue(Tail(s), 10 * acc + DigitVal(Head(s)))

NaN == [finite |-> FALSE, value |-> 0]

\* parseInt(s, 10): leading blanks, an optional sign, then the digit
\* prefix; NaN when there is no digit
ParseInt(tok) ==
    LET s0   == SkipSpace(tok)
        neg  == s0 # <<>> /\ Head(s0) = "-"
        s1   == IF s0 # <<>> /\ Head(s0) \in {"-", "+"} THEN Tail(s0) ELSE s0
        digs == DigitPrefix(s1)
        v    == DigitsValue(digs, 0)
    IN  IF digs = <<>> THEN NaN
        ELSE [finite |-> TRUE, value |-> IF neg THEN 0 - v ELSE v]

IsFinite(n) == n.finite

\* String(itemIdsParam).split(',').map(s => parseInt(s, 10)).filter(Number.isFinite)
ParseItemIds(tokens) ==
    LET parsed == [k \in DOMAIN tokens |-> ParseInt(tokens[k])]
        kept   == SelectSeq(parsed, IsFinite)
    IN  [k \in DOMAIN kept |-> kept[k].value]

\* ---------------------------------------------------------------- state
VARIABLES
    items,       \* items table: id -> name, for the ids that have a row
    meals,       \* meals table: id -> name
    meal_items,  \* meal_items table: set of <<meal_id, item_id>> rows
    inventory,   \* inventory table: set of rows
    query,       \* req.query.item_ids of the request
    pc,          \* the pending database callback of the handler
    itemIds,     \* the ids runMatchWithItemIds was called with (as a set)
    rows,        \* the meal rows handed to attachItemsToMeals
    response,    \* what res.status(..).json(..) sent
    reqs,        \* the /api/inventory requests being served, by connection
    uiItems,     \* App state items: the catalog list the client loaded
    uiInventory, \* App state inventory: the inventory rows the client loaded
    uiMeals,     \* App state meals
    selectedPantryIds,  \* App state selectedPantryIds (inventory row ids)
    orderQuantities,    \* App state orderQuantities: item id -> quantity
    loading,            \* App state loading: the mount effect has not finished
    mealLoading,        \* App state mealLoading
    checkoutLoading,    \* App state checkoutLoading
    uiError,            \* App state error
    mealFetches,        \* GET /api/meals requests of loadMeals not yet served
    served,             \* the loadMeals request the server is answering
    job                 \* the handleCheckout / handleMarkUsed call in progress

\* the state of the React client (expireassist/src/App.js)
client == <<uiItems, uiInventory, uiMeals, selectedPantryIds, orderQuantities, loading,
            mealLoading, checkoutLoading, uiError, mealFetches, served, job>>

\* the state of the meals effect and of its requests
mealsUi == <<uiMeals, mealLoading, mealFetches, served>>

\* the state of handleCheckout and handleMarkUsed
jobState == <<job, checkoutLoading, uiError>>

vars == <<items, meals, meal_items, inventory, query, pc, itemIds, rows, response,
          reqs, client>>

db == <<items, meals, meal_items, inventory>>

Absent == [present |-> FALSE, tokens |-> <<>>]

Param(toks) == [present |-> TRUE, tokens |-> toks]

EmptyString == Param(<< <<>> >>)

NoResponse == [status |-> 0, body |-> <<>>]

Json(status, body) == [status |-> status, body |-> body]

ErrorJson(status) == [status |-> status, body |-> <<>>]

\* ------------------------------------------------- the ranking query
\* COUNT(mi.item_id) of the group of meal m
TotalItems(m) == Cardinality({r \in meal_items : r[1] = m})

\* SUM(CASE WHEN mi.item_id IN (ids) THEN 1 ELSE 0 END) of the group of meal m
MatchedItems(m, ids) == Cardinality({r \in meal_items : r[1] = m /\ r[2] \in ids})

\* FROM meals m JOIN meal_items mi ON mi.meal_id = m.id GROUP BY m.id
Grouped(ids) ==
    {[id |-> m, name |-> meals[m],
      total_items |-> TotalItems(m), matched_items |-> MatchedItems(m, ids)] :
        m \in {x \in DOMAIN meals : \E r \in meal_items : r[1] = x}}

\* the ranking query without its HAVING clause
HavingDropped(ids) == Grouped(ids)

\* HAVING matched_items > 0
Having(ids) == {r \in Grouped(ids) : r.matched_items > 0}

\* the ordering with matched_items ascending
SortsBeforeAscending(a, b) ==
    \/ a.matched_items < b.matched_items
    \/ /\ a.matched_items = b.matched_items
       /\ a.total_items - a.matched_items < b.total_items - b.matched_items

\* the ordering with the missing count descending
SortsBeforeMissingDescending(a, b) ==
    \/ a.matched_items > b.matched_items
    \/ /\ a.matched_items = b.matched_items
       /\ a.total_items - a.matched_items > b.total_items - b.matched_items

\* a sorts strictly before b under
\* ORDER BY matched_items DESC, (total_items - matched_items) ASC
SortsBefore(a, b) ==
    \/ a.matched_items > b.matched_items
    \/ /\ a.matched_items = b.matched_items
       /\ a.total_items - a.matched_items < b.total_items - b.matched_items

\* the orders ORDER BY may return: rows that tie on both keys come in any
\* order, the statement names no further key
RECURSIVE OrderBy(_)
OrderBy(S) ==
    IF S = {} THEN {<<>>}
    ELSE UNION {{<<x>> \o t : t \in OrderBy(S \ {x})} :
                  x \in {y \in S : \A z \in S : ~SortsBefore(z, y)}}

\* LIMIT 5
LimitRows(s) == SubSeq(s, 1, Min(Len(s), Limit))

\* the row lists db.all(sql, itemIds, ...) can deliver
MatchQuery(ids) == {LimitRows(s) : s \in OrderBy(Having(ids))}

\* ------------------------------------------------- attachItemsToMeals
\* SELECT mi.meal_id, it.* FROM meal_items mi JOIN items it ON mi.item_id = it.id
\* restricted to meal m, as {id, name} objects
JoinedItems(m) ==
    {[id |-> i, name |-> items[i]] : i \in {x \in DOMAIN items : <<m, x>> \in meal_items}}

\* Object.assign({}, m, {items: its})
WithItems(m, its) ==
    [f \in (DOMAIN m) \cup {"items"} |-> IF f = "items" THEN its ELSE m[f]]

\* the lists attachItemsToMeals can pass to its callback: the statement has
\* no ORDER BY, so each meal's items come in any order
RECURSIVE AttachItemsToMeals(_)
AttachItemsToMeals(ms) ==
    IF ms = <<>> THEN {<<>>}
    ELSE {<<WithItems(Head(ms), its)>> \o rest :
            its \in Perms(JoinedItems(Head(ms).id)), rest \in AttachItemsToMeals(Tail(ms))}

\* ------------------------------------------- formatting of one result
Names(its) == [k \in DOMAIN its |-> its[k].name]

\* matched / total as a fraction; 0 is 0/1
Score(matched, total) ==
    IF total # 0 THEN [num |-> matched, den |-> total] ELSE [num |-> 0, den |-> 1]

\* items.length || m.total_items || 0
TotalOf(m) == IF Len(m.items) # 0 THEN Len(m.items) ELSE m.total_items

\* matchedList.length || m.matched_items || 0
MatchedOf(m, matchedList) ==
    IF Len(matchedList) # 0 THEN Len(matchedList) ELSE m.matched_items

Formatted(m, ids) ==
    LET InSet(it)    == it.id \in ids
        NotInSet(it) == it.id \notin ids
        total        == TotalOf(m)
        matchedList  == SelectSeq(m.items, InSet)
        matched      == MatchedOf(m, matchedList)
        missingList  == SelectSeq(m.items, NotInSet)
    IN  [id |-> m.id, name |-> m.name,
         total_items |-> total, matched_items |-> matched,
         score |-> Score(matched, total), missing_count |-> total - matched,
         items |-> m.items,
         matched_item_names |-> Names(matchedList),
         missing_item_names |-> Names(missingList)]

\* ORDER BY name on a set of meal rows (the seeded names are distinct)
RECURSIVE SortByName(_)
SortByName(S) ==
    IF S = {} THEN <<>>
    ELSE LET x == CHOOSE y \in S : \A z \in S : NameRank(y.name) <= NameRank(z.name)
         IN  <<x>> \o SortByName(S \ {x})

\* the browse query with the LIMIT of the ranking query
MealsByNameLimited ==
    LimitRows(SortByName({[id |-> m, name |-> meals[m]] : m \in DOMAIN meals}))

\* SELECT * FROM meals ORDER BY name
MealsByName == SortByName({[id |-> m, name |-> meals[m]] : m \in DOMAIN meals})

\* SELECT DISTINCT item_id FROM inventory, then .filter(Number.isFinite)
InventoryItemIds == {r.item_id : r \in inventory}

\* --------------------------------------------------- GET /api/meals
\* runMatchWithItemIds(ids), up to the db.all call
RunMatchWithItemIds(ids) ==
    IF ids = {}
    THEN /\ response' = Json(200, <<>>)
         /\ pc' = "done"
         /\ itemIds' = ids
    ELSE /\ pc' = "match"
         /\ itemIds' = ids
         /\ response' = response

\* the synchronous part of the handler
GetMeals ==
    /\ pc = "idle"
    /\ IF ~query.present \/ query = EmptyString
       THEN /\ pc' = "inventoryIds"
            /\ UNCHANGED <<itemIds, response>>
       ELSE LET parsed == ParseItemIds(query.tokens)
            IN  IF Len(parsed) = 0
                THEN /\ response' = ErrorJson(400)
                     /\ pc' = "done"
                     /\ UNCHANGED itemIds
                ELSE RunMatchWithItemIds(Range(parsed))
    /\ UNCHANGED <<db, reqs, client, query, rows>>

\* a database call of the handler fails: its callback answers 500
StorageError ==
    /\ pc \in {"inventoryIds", "browseMeals", "browseAttach", "match", "attach"}
    /\ response' = ErrorJson(500)
    /\ pc' = "done"
    /\ UNCHANGED <<db, reqs, client, query, itemIds, rows>>

\* callback of SELECT DISTINCT item_id FROM inventory
InventoryIdsCallback ==
    /\ pc = "inventoryIds"
    /\ IF InventoryItemIds = {}
       THEN /\ pc' = "browseMeals"
            /\ UNCHANGED <<itemIds, response>>
       ELSE RunMatchWithItemIds(InventoryItemIds)
    /\ UNCHANGED <<db, reqs, client, query, rows>>

\* callback of SELECT * FROM meals ORDER BY name; attachItemsToMeals
\* answers at once when there is no meal
BrowseMealsCallback ==
    /\ pc = "browseMeals"
    /\ IF MealsByName = <<>>
       THEN /\ response' = Json(200, <<>>)
            /\ pc' = "done"
            /\ UNCHANGED rows
       ELSE /\ rows' = MealsByName
            /\ pc' = "browseAttach"
            /\ UNCHANGED response
    /\ UNCHANGED <<db, reqs, client, query, itemIds>>

\* callback of the items query of attachItemsToMeals, browse mode
BrowseAttachCallback ==
    /\ pc = "browseAttach"
    /\ \E mealsWithItems \in AttachItemsToMeals(rows) :
           response' = Json(200, mealsWithItems)
    /\ pc' = "done"
    /\ UNCHANGED <<db, reqs, client, query, itemIds, rows>>

\* callback of the ranking query
MatchCallback ==
    /\ pc = "match"
    /\ \E rs \in MatchQuery(itemIds) :
          IF Len(rs) = 0
          THEN /\ response' = Json(200, <<>>)
               /\ pc' = "done"
               /\ UNCHANGED rows
          ELSE /\ rows' = rs
               /\ pc' = "attach"
               /\ UNCHANGED response
    /\ UNCHANGED <<db, reqs, client, query, itemIds>>

\* callback of the items query of attachItemsToMeals, ranked mode
AttachCallback ==
    /\ pc = "attach"
    /\ \E mealsWithItems \in AttachItemsToMeals(rows) :
           response' = Json(200, [k \in DOMAIN mealsWithItems |->
                                     Formatted(mealsWithItems[k], itemIds)])
    /\ pc' = "done"
    /\ UNCHANGED <<db, reqs, client, query, itemIds, rows>>

Next ==
    \/ GetMeals
    \/ StorageError
    \/ InventoryIdsCallback
    \/ BrowseMealsCallback
    \/ BrowseAttachCallback
    \/ MatchCallback
    \/ AttachCallback

\* ------------------------------------------------ /api/inventory
\* the connections a request can arrive on
Slots == {"c1", "c2"}

\* the largest inventory id handed out
MaxInvId == 2

MaxQty == 2

MaxStale == 1

\* a field of a JSON body: <<>> when the field is undefined, <<v>> otherwise
IsUndefined(x) == x = <<>>

\* JavaScript truthiness of a numeric and of a string field
TruthyNumber(x) == x # <<>> /\ x[1] # 0

TruthyString(x) == x # <<>> /\ x[1] # ""

\* items.shelf_life_days of the seeded items (0 is NULL); items created by
\* POST /api/inventory have none
ShelfLifeSeed == <<7>>

ShelfLifeDays(i) == IF i \in DOMAIN ShelfLifeSeed THEN ShelfLifeSeed[i] ELSE 0

NoBody == [item_id |-> <<>>, item_name |-> <<>>, expiry_date |-> <<>>, quantity |-> <<>>]

\* a connection with no request; the locals of a handler are kept with it
IdleReq ==
    [op |-> "idle", pc |-> "idle", id |-> 0, body |-> NoBody,
     resolved |-> 0, expiry |-> "null", lastID |-> 0, wrote |-> {},
     status |-> 0, error |-> "", row |-> <<>>]

NewReq(op, id, body, pc0) == [IdleReq EXCEPT !.op = op, !.pc = pc0, !.id = id, !.body = body]

\* res.status(status).json(..): error is the message of an error body, row
\* the row of a row body (<<>> when there is none)
Answer(r, status, error, row) ==
    [reqs[r] EXCEPT !.pc = "done", !.status = status, !.error = error, !.row = row,
                    !.resolved = 0, !.expiry = "null", !.lastID = 0]

MaxOf(S) == IF S = {} THEN 0 ELSE CHOOSE x \in S : \A y \in S : y <= x

\* this.lastID of an INSERT: the next rowid
NextItemId == MaxOf(DOMAIN items) + 1

NextInventoryId == MaxOf({x.id : x \in inventory}) + 1

\* i.*, it.name AS item_name FROM inventory i LEFT JOIN items it
WithItemName(x) ==
    [id |-> x.id, item_id |-> x.item_id, expiry_date |-> x.expiry_date,
     quantity |-> x.quantity,
     item_name |-> IF x.item_id \in DOMAIN items THEN items[x.item_id] ELSE "null"]

RowsWithId(id) == {x \in inventory : x.id = id}

mealsRequest == <<query, pc, itemIds, rows, response>>

\* POST requests that have not run their INSERT INTO inventory yet
PendingInserts ==
    {r \in Slots : reqs[r].op = "post" /\ reqs[r].pc \notin {"done", "selectCreated"}}

Free(r) == reqs[r].pc \in {"idle", "done"}

\* POST /api/inventory: the handler up to the first database call of ensureItem
PostReceived(body) ==
    IF TruthyNumber(body.item_id) THEN NewReq("post", 0, body, "selectItemById")
    ELSE IF ~TruthyString(body.item_name)
         THEN [NewReq("post", 0, body, "done") EXCEPT
                  !.status = 400, !.error = "item_id or item_name required"]
         ELSE NewReq("post", 0, body, "selectItemByName")

PostInventory(r, body) ==
    /\ Free(r)
    /\ NextInventoryId + Cardinality(PendingInserts) <= MaxInvId
    /\ reqs' = [reqs EXCEPT ![r] = PostReceived(body)]
    /\ UNCHANGED <<db, mealsRequest, client>>

\* the callback of ensureItem: with expiry_date insertInventory is called at
\* once, otherwise shelf_life_days is read first
EnsureItemCallback(r, resolvedItemId) ==
    IF TruthyString(reqs[r].body.expiry_date)
    THEN [reqs[r] EXCEPT !.pc = "insertInventory", !.resolved = resolvedItemId,
                         !.expiry = reqs[r].body.expiry_date[1]]
    ELSE [reqs[r] EXCEPT !.pc = "selectShelfLife", !.resolved = resolvedItemId]

\* ensureItem taking item_id without looking it up
SelectItemByIdUnchecked(r) ==
    /\ reqs[r].pc = "selectItemById"
    /\ reqs' = [reqs EXCEPT ![r] = EnsureItemCallback(r, reqs[r].body.item_id[1])]
    /\ UNCHANGED <<db, mealsRequest, client>>

\* SELECT id FROM items WHERE id = ? and its callback
SelectItemById(r) ==
    /\ reqs[r].pc = "selectItemById"
    /\ reqs' = [reqs EXCEPT ![r] =
          IF reqs[r].body.item_id[1] \in DOMAIN items
          THEN EnsureItemCallback(r, reqs[r].body.item_id[1])
          ELSE Answer(r, 400, "item_id not found", <<>>)]
    /\ UNCHANGED <<db, mealsRequest, client>>

\* SELECT id FROM items WHERE name = ? and its callback; db.get delivers
\* the first row, whichever the database finds first
SelectItemByName(r) ==
    /\ reqs[r].pc = "selectItemByName"
    /\ LET found == {i \in DOMAIN items : items[i] = reqs[r].body.item_name[1]}
       IN  IF found = {}
           THEN reqs' = [reqs EXCEPT ![r].pc = "insertItem"]
           ELSE \E i \in found : reqs' = [reqs EXCEPT ![r] = EnsureItemCallback(r, i)]
    /\ UNCHANGED <<db, mealsRequest, client>>

\* INSERT INTO items (name) VALUES (?) and its callback
InsertItem(r) ==
    /\ reqs[r].pc = "insertItem"
    /\ items' = [i \in (DOMAIN items) \cup {NextItemId} |->
                    IF i = NextItemId THEN reqs[r].body.item_name[1] ELSE items[i]]
    /\ reqs' = [reqs EXCEPT ![r] =
          [EnsureItemCallback(r, NextItemId) EXCEPT !.wrote = @ \cup {"items"}]]
    /\ UNCHANGED <<meals, meal_items, inventory, mealsRequest, client>>

\* SELECT shelf_life_days FROM items WHERE id = ? and its callback
SelectShelfLife(r) ==
    /\ reqs[r].pc = "selectShelfLife"
    /\ reqs' = [reqs EXCEPT ![r].pc = "insertInventory",
                            ![r].expiry =
                                IF reqs[r].resolved \in DOMAIN items
                                   /\ ShelfLifeDays(reqs[r].resolved) # 0
                                THEN "today+shelf_life_days" ELSE "null"]
    /\ UNCHANGED <<db, mealsRequest, client>>

\* quantity undefined or null is stored as 1
QuantityToStore(quantityValue) == IF IsUndefined(quantityValue) THEN 1 ELSE quantityValue[1]

\* INSERT INTO inventory (item_id, expiry_date, quantity) and its callback
InsertInventory(r) ==
    /\ reqs[r].pc = "insertInventory"
    /\ inventory' = inventory \cup
          {[id |-> NextInventoryId, item_id |-> reqs[r].resolved,
            expiry_date |-> reqs[r].expiry,
            quantity |-> QuantityToStore(reqs[r].body.quantity)]}
    /\ reqs' = [reqs EXCEPT ![r].pc = "selectCreated", ![r].lastID = NextInventoryId,
                            ![r].wrote = @ \cup {"inventory"}]
    /\ UNCHANGED <<items, meals, meal_items, mealsRequest, client>>

\* SELECT * FROM inventory WHERE id = ? with this.lastID, answered 201
SelectCreated(r) ==
    /\ reqs[r].pc = "selectCreated"
    /\ reqs' = [reqs EXCEPT ![r] =
          IF RowsWithId(reqs[r].lastID) = {}
          THEN Answer(r, 201, "", <<>>)
          ELSE Answer(r, 201, "", <<CHOOSE x \in RowsWithId(reqs[r].lastID) : TRUE>>)]
    /\ UNCHANGED <<db, mealsRequest, client>>

\* GET /api/inventory/:id up to its database call
GetInventory(r, id) ==
    /\ Free(r)
    /\ reqs' = [reqs EXCEPT ![r] = NewReq("get", id, NoBody, "selectRow")]
    /\ UNCHANGED <<db, mealsRequest, client>>

\* GET /api/inventory/:id without the 404 branch
SelectRowAlwaysOk(r) ==
    /\ reqs[r].pc = "selectRow"
    /\ reqs' = [reqs EXCEPT ![r] =
          IF RowsWithId(reqs[r].id) = {}
          THEN Answer(r, 200, "", <<>>)
          ELSE Answer(r, 200, "", <<WithItemName(CHOOSE x \in RowsWithId(reqs[r].id) : TRUE)>>)]
    /\ UNCHANGED <<db, mealsRequest, client>>

\* the SELECT of GET /api/inventory/:id and its callback
SelectRow(r) ==
    /\ reqs[r].pc = "selectRow"
    /\ reqs' = [reqs EXCEPT ![r] =
          IF RowsWithId(reqs[r].id) = {}
          THEN Answer(r, 404, "Inventory item not found", <<>>)
          ELSE Answer(r, 200, "", <<WithItemName(CHOOSE x \in RowsWithId(reqs[r].id) : TRUE)>>)]
    /\ UNCHANGED <<db, mealsRequest, client>>

\* PUT /api/inventory/:id up to its database call
PutInventory(r, id, body) ==
    /\ Free(r)
    /\ reqs' = [reqs EXCEPT ![r] = NewReq("put", id, body, "update")]
    /\ UNCHANGED <<db, mealsRequest, client>>

\* SET expiry_date = ? without COALESCE
CoalesceExpiryOverwrite(expiry_date, old) ==
    IF TruthyString(expiry_date) THEN expiry_date[1] ELSE "null"

\* COALESCE(?, expiry_date) with the parameter expiry_date || null
CoalesceExpiry(expiry_date, old) == IF TruthyString(expiry_date) THEN expiry_date[1] ELSE old

\* COALESCE(?, quantity) with the parameter null for an undefined quantity
CoalesceQuantity(quantity, old) == IF IsUndefined(quantity) THEN old ELSE quantity[1]

Updated(x, body) ==
    [x EXCEPT !.expiry_date = CoalesceExpiry(body.expiry_date, @),
              !.quantity = CoalesceQuantity(body.quantity, @)]

\* the UPDATE of PUT /api/inventory/:id and its callback
UpdateRow(r) ==
    /\ reqs[r].pc = "update"
    /\ IF RowsWithId(reqs[r].id) = {}
       THEN /\ reqs' = [reqs EXCEPT ![r] = Answer(r, 404, "Inventory item not found", <<>>)]
            /\ UNCHANGED inventory
       ELSE /\ inventory' = {IF x.id = reqs[r].id THEN Updated(x, reqs[r].body) ELSE x :
                                x \in inventory}
            /\ reqs' = [reqs EXCEPT ![r].pc = "selectUpdated",
                                    ![r].wrote = @ \cup {"inventory"}]
    /\ UNCHANGED <<items, meals, meal_items, mealsRequest, client>>

\* SELECT * FROM inventory WHERE id = ? after the UPDATE, answered 200
SelectUpdated(r) ==
    /\ reqs[r].pc = "selectUpdated"
    /\ reqs' = [reqs EXCEPT ![r] =
          IF RowsWithId(reqs[r].id) = {}
          THEN Answer(r, 200, "", <<>>)
          ELSE Answer(r, 200, "", <<CHOOSE x \in RowsWithId(reqs[r].id) : TRUE>>)]
    /\ UNCHANGED <<db, mealsRequest, client>>

\* DELETE /api/inventory/:id up to its database call
DeleteInventory(r, id) ==
    /\ Free(r)
    /\ reqs' = [reqs EXCEPT ![r] = NewReq("delete", id, NoBody, "delete")]
    /\ UNCHANGED <<db, mealsRequest, client>>

\* the DELETE statement and its callback
DeleteRow(r) ==
    /\ reqs[r].pc = "delete"
    /\ IF RowsWithId(reqs[r].id) = {}
       THEN /\ reqs' = [reqs EXCEPT ![r] = Answer(r, 404, "Inventory item not found", <<>>)]
            /\ UNCHANGED inventory
       ELSE /\ inventory' = inventory \ RowsWithId(reqs[r].id)
            /\ reqs' = [reqs EXCEPT ![r] =
                  [Answer(r, 200, "", <<>>) EXCEPT !.wrote = @ \cup {"inventory"}]]
    /\ UNCHANGED <<items, meals, meal_items, mealsRequest, client>>

\* the database calls whose error ensureItem passes to its callback
EnsureItemCalls == {"selectItemById", "selectItemByName", "insertItem"}

\* the status answered when the pending database call fails
StorageErrorStatus(callPc) == IF callPc \in EnsureItemCalls THEN 400 ELSE 500

\* the pending database call of connection r fails
InventoryStorageError(r) ==
    /\ reqs[r].pc \notin {"idle", "done"}
    /\ reqs' = [reqs EXCEPT ![r] =
          Answer(r, StorageErrorStatus(reqs[r].pc), "SQLITE_ERROR", <<>>)]
    /\ UNCHANGED <<db, mealsRequest, client>>

\* the steps of connection r, for the given request inputs
InventoryStep(r, posts, puts, ids) ==
    \/ \E body \in posts : PostInventory(r, body)
    \/ SelectItemById(r)
    \/ SelectItemByName(r)
    \/ InsertItem(r)
    \/ SelectShelfLife(r)
    \/ InsertInventory(r)
    \/ SelectCreated(r)
    \/ \E id \in ids : GetInventory(r, id)
    \/ SelectRow(r)
    \/ \E id \in ids, body \in puts : PutInventory(r, id, body)
    \/ UpdateRow(r)
    \/ SelectUpdated(r)
    \/ \E id \in ids : DeleteInventory(r, id)
    \/ DeleteRow(r)
    \/ InventoryStorageError(r)

\* an item id no catalog item has
UnknownItemId == 10 * MaxItem

PostBodies ==
    [item_id : {<<>>, <<1>>, <<UnknownItemId>>},
     item_name : {<<>>, <<"milk">>, <<"kale">>},
     expiry_date : {<<>>, <<"2024-12-31">>},
     quantity : {<<>>, <<0 - 1>>}]

PutBodies ==
    [item_id : {<<>>}, item_name : {<<>>},
     expiry_date : {<<>>, <<"">>, <<"2025-01-31">>},
     quantity : {<<>>, <<5>>}]

\* requests served one after the other
NextInventory == InventoryStep("c1", PostBodies, PutBodies, 1..MaxInvId)

NoRequests == reqs = [r \in Slots |-> IdleReq]

\* no handleCheckout / handleMarkUsed call is in progress
NoJob == [op |-> "none", pc |-> "none", entries |-> <<>>, answers |-> <<>>]

NoClient ==
    /\ uiItems = <<>>
    /\ uiInventory = <<>>
    /\ uiMeals = <<>>
    /\ selectedPantryIds = <<>>
    /\ orderQuantities = <<>>
    /\ loading = TRUE
    /\ mealLoading = FALSE
    /\ checkoutLoading = FALSE
    /\ uiError = ""
    /\ mealFetches = {}
    /\ served = <<>>
    /\ job = NoJob

\* ------------------------------------------------ the client (App.js)
\* String(n) of a non-negative integer, as a sequence of characters
RECURSIVE NumberToString(_)
NumberToString(n) ==
    IF n < 10 THEN <<DigitChars[n + 1]>>
    ELSE NumberToString(n \div 10) \o <<DigitChars[(n % 10) + 1]>>

\* Array.from(new Set(s)): first occurrences, in order
RECURSIVE Distinct(_)
Distinct(s) ==
    IF s = <<>> THEN <<>>
    ELSE LET front == Distinct(SubSeq(s, 1, Len(s) - 1))
             last  == s[Len(s)]
         IN  IF last \in Range(front) THEN front ELSE Append(front, last)

\* the elements of a set of numbers in ascending order
RECURSIVE Ascending(_)
Ascending(S) ==
    IF S = {} THEN <<>>
    ELSE LET x == CHOOSE y \in S : \A z \in S : y <= z
         IN  <<x>> \o Ascending(S \ {x})

\* ORDER BY i.id DESC on inventory rows
RECURSIVE ByIdDescending(_)
ByIdDescending(S) ==
    IF S = {} THEN <<>>
    ELSE LET x == CHOOSE y \in S : \A z \in S : y.id >= z.id
         IN  <<x>> \o ByIdDescending(S \ {x})

\* the rows GET /api/inventory answers
InventoryListing == ByIdDescending({WithItemName(x) : x \in inventory})

\* the lists GET /api/items can answer: SELECT * FROM items has no ORDER BY
ItemListings == Perms({[id |-> i, name |-> items[i]] : i \in DOMAIN items})

computeSelectedItemIds(selectedInventoryIds, orderMap, inventoryRows) ==
    LET Selected(row) == row.id \in Range(selectedInventoryIds)
        chosen    == SelectSeq(inventoryRows, Selected)
        fromRows  == [k \in DOMAIN chosen |-> chosen[k].item_id]
        fromOrder == Ascending({i \in DOMAIN orderMap : orderMap[i] > 0})
    IN  Distinct(fromRows \o fromOrder)

\* prev[idStr] || 0
QuantityOf(orderMap, itemId) == IF itemId \in DOMAIN orderMap THEN orderMap[itemId] ELSE 0

\* copy[idStr] = n
WithQuantity(orderMap, itemId, n) ==
    [i \in (DOMAIN orderMap) \cup {itemId} |-> IF i = itemId THEN n ELSE orderMap[i]]

\* delete copy[idStr]
WithoutItem(orderMap, itemId) == [i \in (DOMAIN orderMap) \ {itemId} |-> orderMap[i]]

\* items.find((it) => it.name === missingName): <<>> when there is none
FindByName(list, missingName) ==
    LET Named(it) == it.name = missingName
        hits      == SelectSeq(list, Named)
    IN  IF hits = <<>> THEN <<>> ELSE <<hits[1]>>

\* the forEach of addMissingItemsToCart over the missing names
RECURSIVE AddMissing(_, _)
AddMissing(copy, names) ==
    IF names = <<>> THEN copy
    ELSE LET foundItem == FindByName(uiItems, Head(names))
         IN  AddMissing(IF foundItem = <<>> THEN copy
                        ELSE WithQuantity(copy, foundItem[1].id,
                                          QuantityOf(copy, foundItem[1].id) + 1),
                        Tail(names))

\* the cleanup that never sets cancelled
NeverCancelled(f) == f

\* cancelled = true, set by the cleanup of the effect that sent the request
Cancelled(f) == [f EXCEPT !.cancelled = TRUE]

\* the meals effect (it runs after a render in which a dependency changed):
\* the cleanup of the previous run cancels its loadMeals; no selection clears
\* the meals, a selection calls loadMeals, which sets mealLoading and sends
\* GET /api/meals?item_ids=<ids joined by ','>
MealsEffect(sel, order, inv) ==
    LET selectedIds == computeSelectedItemIds(sel, order, inv)
        earlier     == {Cancelled(f) : f \in mealFetches}
        tokens      == [k \in DOMAIN selectedIds |-> NumberToString(selectedIds[k])]
    IN  /\ served' = [k \in DOMAIN served |-> Cancelled(served[k])]
        /\ IF Len(selectedIds) = 0
           THEN /\ uiMeals' = <<>>
                /\ mealLoading' = mealLoading
                /\ mealFetches' = earlier
           ELSE /\ uiMeals' = uiMeals
                /\ mealLoading' = TRUE
                /\ mealFetches' = earlier \cup {[tokens |-> tokens, cancelled |-> FALSE]}
        /\ Cardinality(earlier) + Len(served) <= MaxStale
        /\ UNCHANGED mealsRequest

\* the render after a state update, with its effect when a dependency changed
Rendered(sel, order, inv, changed) ==
    IF changed THEN MealsEffect(sel, order, inv)
    ELSE UNCHANGED <<mealsUi, mealsRequest>>

\* the mount effect loadAll: each of the two loads succeeds or fails
LoadAll ==
    /\ loading
    /\ loading' = FALSE
    /\ \E list \in ItemListings \cup {<<>>} : \E inv \in {InventoryListing, <<>>} :
          /\ uiItems' = list
          /\ uiInventory' = inv
          /\ uiError' = IF list = <<>> \/ inv = <<>>
                      THEN "Failed to load data from the server." ELSE ""
          /\ Rendered(selectedPantryIds, orderQuantities, inv, TRUE)
    /\ UNCHANGED <<db, reqs, selectedPantryIds, orderQuantities, job, checkoutLoading>>

togglePantrySelection(rowId) ==
    LET Other(id) == id # rowId
        next == IF rowId \in Range(selectedPantryIds)
                THEN SelectSeq(selectedPantryIds, Other)
                ELSE Append(selectedPantryIds, rowId)
    IN  /\ ~loading
        /\ selectedPantryIds' = next
        /\ Rendered(next, orderQuantities, uiInventory, TRUE)
        /\ UNCHANGED <<db, reqs, uiItems, uiInventory, orderQuantities, loading, jobState>>

adjustOrderQuantity(itemId, delta) ==
    LET current == QuantityOf(orderQuantities, itemId)
        next    == IF current + delta < 0 THEN 0 ELSE current + delta
        copy    == IF next = 0 THEN WithoutItem(orderQuantities, itemId)
                   ELSE WithQuantity(orderQuantities, itemId, next)
    IN  /\ ~loading
        /\ next <= MaxQty
        /\ copy # orderQuantities
        /\ orderQuantities' = copy
        /\ Rendered(selectedPantryIds, copy, uiInventory, TRUE)
        /\ UNCHANGED <<db, reqs, uiItems, uiInventory, selectedPantryIds, loading, jobState>>

addMissingItemsToCart(meal) ==
    LET copy == AddMissing(orderQuantities, meal.missing_item_names)
    IN  /\ ~loading
        /\ Len(meal.missing_item_names) # 0
        /\ \A i \in DOMAIN copy : copy[i] <= MaxQty
        /\ orderQuantities' = copy
        /\ Rendered(selectedPantryIds, copy, uiInventory, copy # orderQuantities)
        /\ UNCHANGED <<db, reqs, uiItems, uiInventory, selectedPantryIds, loading, jobState>>

\* the server receives one of the GET /api/meals requests
ServeMeals ==
    /\ pc = "closed"
    /\ \E f \in mealFetches :
          /\ mealFetches' = mealFetches \ {f}
          /\ served' = <<f>>
          /\ query' = Param(f.tokens)
    /\ pc' = "idle"
    /\ itemIds' = {}
    /\ rows' = <<>>
    /\ response' = NoResponse
    /\ UNCHANGED <<db, reqs, uiItems, uiInventory, uiMeals, mealLoading,
                   selectedPantryIds, orderQuantities, loading, jobState>>

\* the rest of loadMeals, after await fetch: setMeals when the answer is ok,
\* setMealLoading(false) in finally, both only if (!cancelled)
MealsResolved ==
    /\ pc = "done"
    /\ pc' = "closed"
    /\ served' = <<>>
    /\ IF served[1].cancelled
       THEN UNCHANGED <<uiMeals, mealLoading>>
       ELSE /\ uiMeals' = IF response.status = 200 THEN response.body ELSE uiMeals
            /\ mealLoading' = FALSE
    /\ query' = Absent
    /\ rows' = <<>>
    /\ UNCHANGED <<db, reqs, itemIds, response, mealFetches,
                   uiItems, uiInventory, selectedPantryIds, orderQuantities, loading, jobState>>

\* Object.entries(orderQuantities).filter(([, qty]) => qty > 0): integer
\* keys come in ascending order
Entries(orderMap) ==
    LET keys == Ascending({i \in DOMAIN orderMap : orderMap[i] > 0})
    IN  [k \in DOMAIN keys |-> <<keys[k], orderMap[keys[k]]>>]

\* JSON.stringify({item_id: Number(itemId), quantity: qty})
CheckoutBody(entry) ==
    [item_id |-> <<entry[1]>>, item_name |-> <<>>, expiry_date |-> <<>>, quantity |-> <<entry[2]>>]

\* the request of one loop iteration, as the server receives it
JobRequest(op, entry) ==
    IF op = "checkout" THEN PostReceived(CheckoutBody(entry))
    ELSE NewReq("delete", entry, NoBody, "delete")

\* the message of the catch block
JobFailure(op) ==
    IF op = "checkout" THEN "Failed to add new items to your pantry."
    ELSE "Failed to remove items from inventory."

\* handleCheckout up to its first await
handleCheckout ==
    LET entries == Entries(orderQuantities)
    IN  /\ ~loading /\ ~checkoutLoading
        /\ Len(entries) # 0
        /\ NextInventoryId + Len(entries) - 1 <= MaxInvId
        /\ checkoutLoading' = TRUE
        /\ uiError' = ""
        /\ job' = [op |-> "checkout", pc |-> "await", entries |-> entries, answers |-> <<>>]
        /\ reqs' = [reqs EXCEPT !["c1"] = JobRequest("checkout", entries[1])]
        /\ UNCHANGED <<db, mealsRequest, mealsUi, uiItems, uiInventory,
                       selectedPantryIds, orderQuantities, loading>>

\* handleMarkUsed up to its first await
handleMarkUsed ==
    /\ ~loading /\ ~checkoutLoading
    /\ Len(selectedPantryIds) # 0
    /\ checkoutLoading' = TRUE
    /\ uiError' = ""
    /\ job' = [op |-> "markUsed", pc |-> "await", entries |-> selectedPantryIds,
               answers |-> <<>>]
    /\ reqs' = [reqs EXCEPT !["c1"] = JobRequest("markUsed", selectedPantryIds[1])]
    /\ UNCHANGED <<db, mealsRequest, mealsUi, uiItems, uiInventory,
                   selectedPantryIds, orderQuantities, loading>>

\* await fetch(..) of the loop returns the answer, whatever its status: the
\* next iteration sends its request, after the last one loadInventory is
\* called
JobAnswered ==
    /\ job.pc = "await"
    /\ reqs["c1"].pc = "done"
    /\ LET answers == Append(job.answers, [status |-> reqs["c1"].status, row |-> reqs["c1"].row])
       IN  IF Len(answers) < Len(job.entries)
           THEN /\ job' = [job EXCEPT !.answers = answers]
                /\ reqs' = [reqs EXCEPT !["c1"] = JobRequest(job.op, job.entries[Len(answers) + 1])]
           ELSE /\ job' = [job EXCEPT !.answers = answers, !.pc = "reload"]
                /\ reqs' = reqs
    /\ UNCHANGED <<db, mealsRequest, mealsUi, uiItems, uiInventory, selectedPantryIds,
                   orderQuantities, loading, checkoutLoading, uiError>>

\* a fetch of the loop rejects (the answer is lost), or loadInventory throws
\* (its fetch rejects or answers an error status): catch and finally
JobFailed ==
    /\ \/ job.pc = "await" /\ reqs["c1"].pc = "done"
       \/ job.pc = "reload"
    /\ uiError' = JobFailure(job.op)
    /\ checkoutLoading' = FALSE
    /\ job' = NoJob
    /\ reqs' = [reqs EXCEPT !["c1"] = IdleReq]
    /\ UNCHANGED <<db, mealsRequest, mealsUi, uiItems, uiInventory, selectedPantryIds,
                   orderQuantities, loading>>

\* loadInventory succeeds: setInventory(data), then the basket or the
\* selection is cleared, finally setCheckoutLoading(false); one render
JobReloaded ==
    /\ job.pc = "reload"
    /\ uiInventory' = InventoryListing
    /\ orderQuantities' = IF job.op = "checkout" THEN <<>> ELSE orderQuantities
    /\ selectedPantryIds' = IF job.op = "markUsed" THEN <<>> ELSE selectedPantryIds
    /\ checkoutLoading' = FALSE
    /\ job' = NoJob
    /\ reqs' = [reqs EXCEPT !["c1"] = IdleReq]
    /\ Rendered(selectedPantryIds', orderQuantities', uiInventory', TRUE)
    /\ UNCHANGED <<db, uiItems, loading, uiError>>

\* the handlers of the selection and of the basket
ClientHandlers ==
    \/ \E k \in DOMAIN uiMeals : addMissingItemsToCart(uiMeals[k])
    \/ \E k \in DOMAIN uiInventory : togglePantrySelection(uiInventory[k].id)
    \/ \E k \in DOMAIN uiItems : \E delta \in {0 - 1, 1} :
          adjustOrderQuantity(uiItems[k].id, delta)

\* the server answers a GET /api/meals request and the answer reaches loadMeals
MealsProgress ==
    \/ ServeMeals
    \/ GetMeals
    \/ MatchCallback
    \/ AttachCallback
    \/ StorageError
    \/ MealsResolved

\* handleCheckout and handleMarkUsed with the server's side of their requests
JobSteps ==
    \/ handleCheckout
    \/ handleMarkUsed
    \/ JobAnswered
    \/ JobFailed
    \/ JobReloaded
    \/ SelectItemById("c1")
    \/ SelectShelfLife("c1")
    \/ InsertInventory("c1")
    \/ SelectCreated("c1")
    \/ DeleteRow("c1")
    \/ InventoryStorageError("c1")

NextClient == LoadAll \/ ClientHandlers \/ MealsProgress

\* checkout, mark-used and the pantry toggles made around them, on a
\* catalog without recipes
NextJobs ==
    \/ \E k \in DOMAIN uiInventory : togglePantrySelection(uiInventory[k].id)
    \/ ServeMeals
    \/ GetMeals
    \/ MatchCallback
    \/ StorageError
    \/ MealsResolved
    \/ JobSteps

\* ------------------------------------------------------ initial states
SeededItems(S) == [i \in S |-> ItemNameSeed[i]]

SeededMeals(S) == [m \in S |-> MealNameSeed[m]]

\* inventory tables of up to MaxInvRows rows, ids 1..n
InventoryRow(k, its, qs) ==
    [id |-> k, item_id |-> its[k], expiry_date |-> "null", quantity |-> qs[k]]

InventoryTables ==
    UNION {{{InventoryRow(k, its, qs) : k \in 1..n} :
              its \in [1..n -> ItemIds], qs \in [1..n -> {0, 1}]} : n \in 0..MaxInvRows}

IdTokens == {<<"1">>, <<"2">>}

Tokens == IdTokens \cup {<<>>, <<"-", "1">>, <<"x">>, <<"1", "x">>}

Quiet ==
    /\ pc = "idle"
    /\ itemIds = {}
    /\ rows = <<>>
    /\ response = NoResponse
    /\ NoRequests
    /\ NoClient

\* a small catalog with any meal_items rows, also rows whose item has no
\* items row; the request names valid ids
InitMatch ==
    /\ meals = SeededMeals(MealIds)
    /\ items \in {SeededItems(S) : S \in SUBSET ItemIds}
    /\ meal_items \in SUBSET (MealIds \X ItemIds)
    /\ inventory = {}
    /\ query \in {Absent} \cup {Param(t) : t \in SeqsUpTo(IdTokens, 1, MaxTokens)}
    /\ Quiet

\* any item_ids parameter, or none with any inventory
InitDispatch ==
    /\ meals = SeededMeals(MealIds)
    /\ items = SeededItems(ItemIds)
    /\ meal_items \in SUBSET (MealIds \X ItemIds)
    /\ \/ /\ inventory = {}
          /\ query \in {Param(t) : t \in SeqsUpTo(Tokens, 1, MaxTokens)}
       \/ /\ inventory \in InventoryTables
          /\ query \in {Absent, EmptyString}
    /\ Quiet

\* a catalog of more meals than the ranking returns: each meal needs
\* nothing, item 1, or items 1 and 2
InitCatalog ==
    /\ meals = SeededMeals(1..MaxCatalog)
    /\ items = SeededItems({1, 2})
    /\ \E some \in SUBSET (1..MaxCatalog) : \E both \in SUBSET some :
          meal_items = {<<m, 1>> : m \in some} \cup {<<m, 2>> : m \in both}
    /\ inventory = {}
    /\ query \in {Absent, Param(<< <<"1">>, <<"2">> >>)}
    /\ Quiet

\* the recipes A = {milk, eggs}, B = {milk, eggs, flour}, C = {sugar} under
\* any assignment of meal ids, asked for milk and eggs by parameter or
\* through the inventory
ExampleMealItems(p) ==
    {<<p[1], 1>>, <<p[1], 2>>, <<p[2], 1>>, <<p[2], 2>>, <<p[2], 3>>, <<p[3], 4>>}

InitExample ==
    /\ meals = SeededMeals({1, 2, 3})
    /\ items = SeededItems({1, 2, 3, 4})
    /\ meal_items \in {ExampleMealItems(p) : p \in Perms({1, 2, 3})}
    /\ \/ /\ inventory = {}
          /\ query \in {Absent, Param(<< <<"1">>, <<"2">> >>), Param(<< <<"2">>, <<"1">> >>)}
       \/ /\ inventory = {InventoryRow(k, <<2, 1>>, <<1, 1>>) : k \in {1, 2}}
          /\ query = Absent
    /\ Quiet

Init == InitMatch \/ InitDispatch \/ InitCatalog \/ InitExample

Spec == Init /\ [][Next]_vars

\* the inventory endpoints on the seeded catalog, from an empty inventory
InitInventory ==
    /\ meals = SeededMeals(MealIds)
    /\ items = SeededItems(ItemIds)
    /\ meal_items = {}
    /\ inventory = {}
    /\ query = Absent
    /\ Quiet

SpecInventory == InitInventory /\ [][NextInventory]_vars

\* POST requests on two connections, their database calls interleaved
RacePostBodies ==
    [item_id : {<<>>},
     item_name : {<<"milk">>, <<"kale">>},
     expiry_date : {<<>>, <<"2024-12-31">>},
     quantity : {<<>>}]

RaceStep(r) ==
    \/ \E body \in RacePostBodies : PostInventory(r, body)
    \/ SelectItemByName(r)
    \/ InsertItem(r)
    \/ SelectShelfLife(r)
    \/ InsertInventory(r)
    \/ SelectCreated(r)
    \/ InventoryStorageError(r)

NextRace == \E r \in Slots : RaceStep(r)

SpecRace == InitInventory /\ [][NextRace]_vars

\* ------------------------------------------------------------- claims
Body == response.body

\* the handler has answered 200
Answered == pc = "done" /\ response.status = 200

\* a result of the ranked shape (browse-mode entries carry no counts)
IsRanked(r) == "matched_items" \in DOMAIN r

\* the answer is a non-empty ranked list
RankedAnswer == Answered /\ Body # <<>> /\ \A k \in DOMAIN Body : IsRanked(Body[k])

BodyIds == {Body[k].id : k \in DOMAIN Body}

\* the meal_items rows of meal m
Ingredients(m) == {r[2] : r \in {x \in meal_items : x[1] = m}}

\* overlap of meal m with the ids the matcher was called with
Overlap(m) == Cardinality(Ingredients(m) \cap itemIds)

Lacking(m) == Cardinality(Ingredients(m) \ itemIds)

\* C1: every result of the ranked matcher has matched_items >= 1, and a
\* recipe with no ingredient in the available set is never in the output.
C1_EveryResultMatches ==
    Answered =>
        \A k \in DOMAIN Body :
            IsRanked(Body[k]) => Body[k].matched_items >= 1 /\ Overlap(Body[k].id) >= 1

\* a ranked answer was given while some recipe with ingredients had no overlap
C1_Witness ==
    /\ RankedAnswer
    /\ \E m \in DOMAIN meals : Ingredients(m) # {} /\ Overlap(m) = 0 /\ m \notin BodyIds

\* C2: every ranked result has matched_items + missing_count = total_items,
\* score = matched_items / total_items (0 when total_items = 0) and
\* 0 <= matched_items <= total_items.
C2_CountsAndScore ==
    Answered =>
        \A k \in DOMAIN Body :
            IsRanked(Body[k]) =>
                LET r == Body[k]
                IN  /\ r.matched_items + r.missing_count = r.total_items
                    /\ IF r.total_items = 0
                       THEN r.score.num = 0
                       ELSE r.score.num * r.total_items = r.matched_items * r.score.den
                    /\ 0 <= r.matched_items
                    /\ r.matched_items <= r.total_items
                    /\ 0 <= r.score.num
                    /\ r.score.num <= r.score.den

\* C3: in every ranked result the name lists partition the attached
\* ingredients by membership in the available set, and the counts are the
\* lengths of those lists and of the attached list.
C3_CountsFromAttachedList ==
    Answered =>
        \A k \in DOMAIN Body :
            IsRanked(Body[k]) =>
                LET r       == Body[k]
                    In(it)  == it.id \in itemIds
                    Out(it) == it.id \notin itemIds
                    inList  == SelectSeq(r.items, In)
                    outList == SelectSeq(r.items, Out)
                IN  /\ r.matched_item_names = [j \in DOMAIN inList |-> inList[j].name]
                    /\ r.missing_item_names = [j \in DOMAIN outList |-> outList[j].name]
                    /\ r.matched_items = Len(r.matched_item_names)
                    /\ r.missing_count = Len(r.missing_item_names)
                    /\ r.total_items = Len(r.items)

\* C4: the ranked output is sorted on the values it reports: a before b
\* means a.matched_items > b.matched_items, or equal and
\* a.total_items - a.matched_items <= b.total_items - b.matched_items.
C4_SortedOnReportedValues ==
    RankedAnswer =>
        \A j, k \in DOMAIN Body :
            j < k =>
                \/ Body[j].matched_items > Body[k].matched_items
                \/ /\ Body[j].matched_items = Body[k].matched_items
                   /\ Body[j].total_items - Body[j].matched_items
                         <= Body[k].total_items - Body[k].matched_items

\* recipe m ranks strictly better than recipe n for the ids in use
RanksBetter(m, n) ==
    \/ Overlap(m) > Overlap(n)
    \/ Overlap(m) = Overlap(n) /\ Lacking(m) < Lacking(n)

\* C5: the ranked output has at most 5 results, and no eligible recipe left
\* out ranks strictly better than a returned one.
C5_AtMostFivePrefix ==
    RankedAnswer =>
        /\ Len(Body) <= 5
        /\ \A m \in DOMAIN meals :
              (Overlap(m) >= 1 /\ m \notin BodyIds) =>
                  \A n \in BodyIds : ~RanksBetter(m, n)

\* five results were returned, an eligible recipe was left out, and it ranks
\* strictly worse than a returned one
C5_Witness ==
    /\ RankedAnswer
    /\ Len(Body) = 5
    /\ \E m \in DOMAIN meals :
          /\ Overlap(m) >= 1
          /\ m \notin BodyIds
          /\ \E n \in BodyIds : RanksBetter(n, m)

\* the request carried item_ids with an empty value (item_ids=)
EmptySelection == query.present /\ query.tokens = << <<>> >>

\* C6: a request with an explicitly empty selection, while the inventory has
\* rows, is answered 200 with an empty array (storage failures aside).
C6_EmptySelectionYieldsEmpty ==
    (EmptySelection /\ inventory # {} /\ pc = "done" /\ response.status # 500) =>
        response = [status |-> 200, body |-> <<>>]

\* the catalog items meal m is linked to
CatalogIngredients(m) == {i \in DOMAIN items : <<m, i>> \in meal_items}

\* the entry lists exactly the catalog ingredients of its meal
ListsIngredients(r) ==
    /\ Len(r.items) = Cardinality(CatalogIngredients(r.id))
    /\ {r.items[j].id : j \in DOMAIN r.items} = CatalogIngredients(r.id)
    /\ \A j \in DOMAIN r.items : r.items[j].name = items[r.items[j].id]

InventoryIds == {r.item_id : r \in inventory}

\* C7: without item_ids, an empty inventory yields every recipe of the meals
\* table once, each with its ingredient list, with no limit and no exclusion;
\* a non-empty inventory yields the ranked match against the distinct
\* inventory item ids.
C7_BrowseOrInventoryMatch ==
    (~query.present /\ Answered) =>
        IF inventory = {}
        THEN /\ Len(Body) = Cardinality(DOMAIN meals)
             /\ BodyIds = DOMAIN meals
             /\ \A k \in DOMAIN Body : ~IsRanked(Body[k]) /\ ListsIngredients(Body[k])
        ELSE /\ itemIds = InventoryIds
             /\ \A k \in DOMAIN Body : IsRanked(Body[k])
             /\ \A k \in DOMAIN Body : Ingredients(Body[k].id) \cap InventoryIds # {}
             /\ \A m \in DOMAIN meals :
                   (Ingredients(m) \cap InventoryIds # {} /\ m \notin BodyIds) => Len(Body) = 5

\* browse mode listed more than 5 recipes, with and without ingredients
C7_WitnessBrowse ==
    /\ ~query.present /\ Answered /\ inventory = {}
    /\ Len(Body) > 5
    /\ \E k \in DOMAIN Body : Body[k].items # <<>>
    /\ \E k \in DOMAIN Body : Body[k].items = <<>> /\ Ingredients(Body[k].id) = {}

\* a request without item_ids was ranked against a non-empty inventory
C7_WitnessInventory ==
    /\ ~query.present /\ Answered /\ inventory # {}
    /\ Body # <<>>
    /\ \E m \in DOMAIN meals : m \notin BodyIds

\* C8: results that tie on matched_items and on the missing count are in
\* ascending recipe id order.
C8_TiesByRecipeId ==
    RankedAnswer =>
        \A j, k \in DOMAIN Body :
            (/\ j < k
             /\ Body[j].matched_items = Body[k].matched_items
             /\ Body[j].missing_count = Body[k].missing_count) => Body[j].id < Body[k].id

\* the token is a decimal numeral of a non-negative integer
IsNumeral(tok) == tok # <<>> /\ \A j \in DOMAIN tok : IsDigit(tok[j])

ValidIds == {DigitsValue(query.tokens[k], 0) :
                k \in {j \in DOMAIN query.tokens : IsNumeral(query.tokens[j])}}

\* the matcher was started from the item_ids parameter
MatchingFromParam == query.present /\ ~EmptySelection /\ pc \in {"match", "attach", "done"}

\* C9: the id set used for matching holds only the non-negative integer ids
\* of the item_ids input; negative and non-numeric tokens are filtered out.
C9_InvalidTokensFiltered ==
    (MatchingFromParam /\ response.status # 400) => itemIds = ValidIds

\* C10: a non-empty item_ids parameter is answered 400 exactly when no token
\* of it is a valid id (storage failures aside).
C10_BadRequestIffNoValidId ==
    (query.present /\ ~EmptySelection /\ pc = "done" /\ response.status # 500) =>
        (response.status = 400 <=> ValidIds = {})

\* the id of the catalog item called n
ItemCalled(n) == CHOOSE i \in DOMAIN items : items[i] = n

\* meals a, b, c are the recipes A, B, C of the example
IsExample(a, b, c) ==
    /\ DOMAIN meals = {a, b, c}
    /\ Cardinality({a, b, c}) = 3
    /\ \A n \in {"milk", "eggs", "flour", "sugar"} :
          Cardinality({i \in DOMAIN items : items[i] = n}) = 1
    /\ Ingredients(a) = {ItemCalled("milk"), ItemCalled("eggs")}
    /\ Ingredients(b) = {ItemCalled("milk"), ItemCalled("eggs"), ItemCalled("flour")}
    /\ Ingredients(c) = {ItemCalled("sugar")}

\* C11: for recipes A = {milk, eggs}, B = {milk, eggs, flour}, C = {sugar}
\* and available ids {milk, eggs} the matcher returns exactly [A, B]: A with
\* 2 of 2, score 1, nothing missing; B with 2 of 3, score 2/3, missing [flour].
C11_ExampleRanking ==
    \A a, b, c \in DOMAIN meals :
        (/\ IsExample(a, b, c)
         /\ itemIds = {ItemCalled("milk"), ItemCalled("eggs")}
         /\ Answered) =>
            /\ Len(Body) = 2
            /\ Body[1].id = a
            /\ Body[1].matched_items = 2 /\ Body[1].total_items = 2
            /\ Body[1].score.num = Body[1].score.den
            /\ Body[1].missing_count = 0 /\ Body[1].missing_item_names = <<>>
            /\ Body[2].id = b
            /\ Body[2].matched_items = 2 /\ Body[2].total_items = 3
            /\ 3 * Body[2].score.num = 2 * Body[2].score.den
            /\ Body[2].missing_count = 1 /\ Body[2].missing_item_names = <<"flour">>

\* the example was answered, with recipe A holding a larger id than B
C11_Witness ==
    /\ \E a, b, c \in DOMAIN meals : IsExample(a, b, c) /\ a > b
    /\ itemIds = {ItemCalled("milk"), ItemCalled("eggs")}
    /\ Answered
    /\ Len(Body) = 2

\* the distinct item ids of inventory rows with quantity > 0
StockedIds == {r.item_id : r \in {x \in inventory : x.quantity > 0}}

\* C17: without item_ids the ids used are exactly the distinct item ids of
\* inventory rows with quantity > 0, for matching and for the choice between
\* ranked mode and browse mode (storage failures aside).
C17_OnlyStockedItemsAvailable ==
    (~query.present /\ pc \notin {"idle", "inventoryIds"} /\ response.status # 500) =>
        /\ itemIds = StockedIds
        /\ pc \in {"browseMeals", "browseAttach"} <=> (StockedIds = {} /\ pc # "done")

\* the client on a catalog of two items whose names are distinct or where
\* item 2 has the name of item 1; meal 1 needs any items, meal m > 1 needs
\* item m; the pantry holds one row, of item 2
ClientItemIds == {1, 2}

SharedNameItems ==
    [i \in ClientItemIds |-> IF i = 2 THEN ItemNameSeed[1] ELSE ItemNameSeed[i]]

ClientInventory ==
    {[id |-> 1, item_id |-> 2, expiry_date |-> "null", quantity |-> 1]}

InitClient ==
    /\ meals = SeededMeals(MealIds)
    /\ items \in {SeededItems(ClientItemIds), SharedNameItems}
    /\ \E needs \in (SUBSET ClientItemIds) \ {{}} :
          meal_items = {<<1, i>> : i \in needs}
                       \cup {<<m, m>> : m \in (MealIds \ {1}) \cap ClientItemIds}
    /\ inventory = ClientInventory
    /\ query = Absent
    /\ pc = "closed"
    /\ itemIds = {}
    /\ rows = <<>>
    /\ response = NoResponse
    /\ NoRequests
    /\ NoClient

SpecClient == InitClient /\ [][NextClient]_vars

SpecClientFair == SpecClient /\ WF_vars(MealsProgress)

\* the client after its mount effect has loaded both lists and the user has
\* put one piece of item 1 into the basket, its meals request answered: two
\* items with distinct names, no recipe has ingredients, the pantry holds
\* one row, of item 2
InitJobs ==
    /\ meals = SeededMeals(MealIds)
    /\ items = SeededItems(ClientItemIds)
    /\ meal_items = {}
    /\ inventory = ClientInventory
    /\ query = Absent
    /\ pc = "closed"
    /\ itemIds = {1}
    /\ rows = <<>>
    /\ response = Json(200, <<>>)
    /\ NoRequests
    /\ uiItems = [i \in ClientItemIds |-> [id |-> i, name |-> items[i]]]
    /\ uiInventory = InventoryListing
    /\ uiMeals = <<>>
    /\ selectedPantryIds = <<>>
    /\ orderQuantities = [i \in {1} |-> 1]
    /\ loading = FALSE
    /\ mealLoading = FALSE
    /\ checkoutLoading = FALSE
    /\ uiError = ""
    /\ mealFetches = {}
    /\ served = <<>>
    /\ job = NoJob

SpecJobs == InitJobs /\ [][NextJobs]_vars

\* ------------------------------------------- claims on /api/inventory
\* connection r has been answered
Done(r) == reqs[r].pc = "done"

\* the database call of connection r ran in this step and did not fail
Ran(r, calls) ==
    /\ reqs[r].pc \in calls
    /\ reqs'[r] # reqs[r]
    /\ reqs'[r].error # "SQLITE_ERROR"

\* C12: GET, PUT and DELETE on an id that is no inventory row answer 404 and
\* leave the inventory unchanged, and a DELETE answered 200 leaves no row of
\* that id, so later requests on it get 404 until a create hands it out again.
C12_MissingRowIs404 ==
    [][\A r \in Slots :
          Ran(r, {"selectRow", "update", "delete"}) =>
              /\ ({x \in inventory : x.id = reqs[r].id} = {}) =>
                     (reqs'[r].pc = "done" /\ reqs'[r].status = 404 /\ inventory' = inventory)
              /\ (reqs[r].op = "delete" /\ reqs'[r].status = 200) =>
                     {x \in inventory' : x.id = reqs[r].id} = {}]_vars

\* a GET of id 1 was answered 404 while row 2 exists: row 1 has been deleted
C12_Witness ==
    /\ Done("c1") /\ reqs["c1"].op = "get" /\ reqs["c1"].id = 1
    /\ reqs["c1"].status = 404
    /\ \E x \in inventory : x.id = 2

\* C13: every inventory row's item_id is the id of a catalog item; a POST
\* whose item_id matches no catalog item creates no row; GET of a row answers
\* a non-empty item_name.
C13_RowsReferenceCatalog ==
    /\ \A x \in inventory : x.item_id \in DOMAIN items
    /\ \A r \in Slots :
          /\ (Done(r) /\ reqs[r].error = "item_id not found") => reqs[r].wrote = {}
          /\ (Done(r) /\ reqs[r].op = "get" /\ reqs[r].status = 200) =>
                 reqs[r].row[1].item_name \notin {"", "null"}

\* a row created for an item that the same kind of request created by name
\* was read back by GET
C13_Witness ==
    /\ Done("c1") /\ reqs["c1"].op = "get" /\ reqs["c1"].status = 200
    /\ reqs["c1"].row[1].item_id \notin ItemIds
    /\ reqs["c1"].row[1].item_name = "kale"

\* C14: after any number of POST requests naming the same item_name, also
\* with interleaved callbacks, one catalog item has that name and the rows
\* created reference it.
C14_OneItemPerName ==
    /\ \A i, j \in DOMAIN items : items[i] = items[j] => i = j
    /\ \A r \in Slots :
          (Done(r) /\ reqs[r].status = 201 /\ reqs[r].row # <<>>) =>
              items[reqs[r].row[1].item_id] = reqs[r].body.item_name[1]

\* C15: a POST answered with an error status has written neither the items
\* table nor the inventory table.
C15_FailedPostWritesNothing ==
    \A r \in Slots :
        (Done(r) /\ reqs[r].op = "post" /\ reqs[r].status >= 400) => reqs[r].wrote = {}

\* C16: an item_id matching no catalog item is answered with a client-error
\* status other than the 400 of a validation error, and a storage failure
\* with a 5xx status.
C16_DistinctErrorClasses ==
    \A r \in Slots :
        (Done(r) /\ reqs[r].op = "post") =>
            /\ reqs[r].error = "item_id or item_name required" => reqs[r].status = 400
            /\ reqs[r].error = "item_id not found" =>
                   (reqs[r].status \in 401..499)
            /\ reqs[r].error = "SQLITE_ERROR" => reqs[r].status >= 500

\* a field value counts as supplied when the handler passes it to the UPDATE
SuppliedExpiry(body) == body.expiry_date # <<>> /\ body.expiry_date[1] # ""

SuppliedQuantity(body) == body.quantity # <<>>

\* C18: PUT on an existing row changes only the fields supplied, leaves id,
\* item_id and every other row unchanged, and answers the row as stored.
C18_PutChangesOnlySupplied ==
    [][\A r \in Slots :
          /\ (Ran(r, {"update"}) /\ {x \in inventory : x.id = reqs[r].id} # {}) =>
                /\ \A x \in inventory : x.id # reqs[r].id => x \in inventory'
                /\ Cardinality(inventory') = Cardinality(inventory)
                /\ \A x \in inventory : x.id = reqs[r].id =>
                      \E y \in inventory' :
                          /\ y.id = x.id /\ y.item_id = x.item_id
                          /\ y.quantity = IF SuppliedQuantity(reqs[r].body)
                                          THEN reqs[r].body.quantity[1] ELSE x.quantity
                          /\ y.expiry_date = IF SuppliedExpiry(reqs[r].body)
                                             THEN reqs[r].body.expiry_date[1]
                                             ELSE x.expiry_date
          /\ (Ran(r, {"selectUpdated"}) /\ {x \in inventory : x.id = reqs[r].id} # {}) =>
                /\ reqs'[r].status = 200
                /\ reqs'[r].row = <<CHOOSE x \in inventory : x.id = reqs[r].id>>
                /\ inventory' = inventory]_vars

\* a PUT with only quantity was answered with the new quantity and the
\* expiry date the row had, while another row exists
C18_Witness ==
    /\ Done("c1") /\ reqs["c1"].op = "put" /\ reqs["c1"].status = 200
    /\ reqs["c1"].body.expiry_date = <<>> /\ reqs["c1"].body.quantity = <<5>>
    /\ reqs["c1"].row # <<>>
    /\ reqs["c1"].row[1].quantity = 5
    /\ reqs["c1"].row[1].expiry_date = "2024-12-31"
    /\ Cardinality(inventory) = 2

\* C19: every inventory row has a quantity >= 0, and a create without a
\* quantity stores 1.
C19_QuantityNonNegative ==
    /\ \A x \in inventory : x.quantity >= 0
    /\ \A r \in Slots :
          (Done(r) /\ reqs[r].status = 201 /\ reqs[r].row # <<>>
             /\ reqs[r].body.quantity = <<>>) => reqs[r].row[1].quantity = 1

\* ------------------------------------------------ claims on the client
\* the meals shown are the server's answer to the current selection
MealsCurrent ==
    /\ pc = "closed"
    /\ response.status = 200
    /\ uiMeals = response.body
    /\ itemIds = Range(computeSelectedItemIds(selectedPantryIds, orderQuantities, uiInventory))

\* the ingredient ids of a shown meal that the server reported as missing
MissingIds(meal) == {meal.items[k].id : k \in DOMAIN meal.items} \ itemIds

\* every missing name of the meal is the name of an item the client loaded
NamesInCatalog(meal) ==
    \A k \in DOMAIN meal.missing_item_names :
        FindByName(uiItems, meal.missing_item_names[k]) # <<>>

\* C20: after addMissingItemsToCart(meal) on a meal of the current answer whose
\* missing names are all in the catalog, the basket holds a positive quantity
\* for every ingredient id reported missing, and the id set computed next
\* contains every ingredient of the meal.
C20_AddMissingClosesLoop ==
    [][\A k \in DOMAIN uiMeals :
          (MealsCurrent /\ NamesInCatalog(uiMeals[k]) /\ addMissingItemsToCart(uiMeals[k])) =>
              LET next == Range(computeSelectedItemIds(selectedPantryIds', orderQuantities',
                                                       uiInventory'))
              IN  /\ \A i \in MissingIds(uiMeals[k]) : QuantityOf(orderQuantities', i) > 0
                  /\ \A j \in DOMAIN uiMeals[k].items : uiMeals[k].items[j].id \in next]_vars

\* the id set derived from the current selection
CurrentIds == Range(computeSelectedItemIds(selectedPantryIds, orderQuantities, uiInventory))

\* C21: an answer that changes the meals shown is the answer to a request for
\* the current selection's id set, and whenever the derived id set is empty
\* the meals shown are the empty list.
C21_MealsBelongToSelection ==
    [][/\ (pc = "done" /\ pc' = "closed" /\ uiMeals' # uiMeals) => itemIds = CurrentIds
       /\ (computeSelectedItemIds(selectedPantryIds', orderQuantities', uiInventory') = <<>>)
              => uiMeals' = <<>>]_vars

\* the answer to a request for another id set has arrived and the meals shown
\* are not that answer, while a selection is made and meals are shown
C21_Witness ==
    /\ pc = "closed"
    /\ response.status = 200
    /\ response.body # <<>>
    /\ itemIds # CurrentIds
    /\ CurrentIds # {}
    /\ uiMeals # <<>>
    /\ uiMeals # response.body

\* no request of the latest effect run is outstanding
NoCurrentRequest ==
    /\ \A f \in mealFetches : f.cancelled
    /\ \A k \in DOMAIN served : served[k].cancelled

\* C22: once no meals request for the current selection is outstanding,
\* mealLoading is eventually false.
C22_MealLoadingClears == NoCurrentRequest ~> (mealLoading = FALSE)

\* C23: when handleCheckout ends with the basket emptied and no error shown,
\* the basket held exactly the entries that were sent, and every entry's POST
\* was answered 201 with a row of its own, of the entry's item id and
\* quantity, that is in the inventory table.
C23_CheckoutClearsOnlyAdded ==
    [][(job.op = "checkout" /\ job'.op = "none" /\ orderQuantities' = <<>> /\ uiError' = "") =>
          /\ Entries(orderQuantities) = job.entries
          /\ \A k \in DOMAIN job.entries :
                /\ job.answers[k].status = 201
                /\ job.answers[k].row # <<>>
                /\ job.answers[k].row[1] \in inventory'
                /\ job.answers[k].row[1].item_id = job.entries[k][1]
                /\ job.answers[k].row[1].quantity = job.entries[k][2]
                /\ \A j \in DOMAIN job.entries :
                      (j # k /\ job.answers[j].row # <<>>) =>
                          job.answers[j].row[1].id # job.answers[k].row[1].id]_vars

\* C24: every id in selectedPantryIds is the id of a row of the client's
\* inventory list, and a DELETE that handleMarkUsed sends names a row the
\* inventory table holds.
C24_SelectionWithinInventory ==
    [][/\ \A k \in DOMAIN selectedPantryIds' :
             \E j \in DOMAIN uiInventory' : uiInventory'[j].id = selectedPantryIds'[k]
       /\ (reqs'["c1"] # reqs["c1"] /\ reqs'["c1"].pc = "delete") =>
             \E x \in inventory : x.id = reqs'["c1"].id]_vars

====
